---- MODULE Spec2Model ----
(***************************************************************************)
(* A model of clipmvs: the Qdrant store handler (qdrant_handler.py) and    *)
(* the multi-view summarizer that drives it (multi_view_summarizer.py).    *)
(*                                                                         *)
(* Two specifications share the handler's operations:                      *)
(*   SpecStore  a client calling QdrantHandler directly                    *)
(*              (construct / store_embedding / query_embedding);           *)
(*   Spec       MultiViewSummarizer.process_videos fanning one task per    *)
(*              video out to a thread pool, followed by generate_summary.  *)
(***************************************************************************)
EXTENDS Integers, Sequences, FiniteSets, TLC

\* ------------------------------------------------------------------ bounds
MaxBatch     == 2   \* longest batch a direct caller hands to store_embedding
MaxStores    == 2   \* store_embedding calls between two constructions
MaxTopK      == 2   \* largest top_k a caller asks for
NumVideos    == 3   \* len(video_paths)
BatchSize    == 2   \* batch_size handed to process_videos
MaxWorkers   == 2   \* worker threads of the ThreadPoolExecutor

\* config.get("vector_size"): the dimension the collection is created with
VectorSize == 2

VARIABLES
    collection,   \* the points of the named Qdrant collection
    storesSince,  \* store_embedding calls made since the last construction
    maxBatch,     \* longest batch upserted since the last construction
    call,         \* the handler call that ran last, with its arguments
    ret,          \* what that call returned or raised
    unreadable,   \* the video paths whose loader fails to open
    task,         \* per video path: the state of its process_single_video
    pvPc,         \* where process_videos is
    pvIdx,        \* the index process_videos is at (submitting / collecting)
    pvExc,        \* the task whose error process_videos is raising (0: none)
    summary       \* what the last generate_summary did

vars == <<collection, storesSince, maxBatch, call, ret,
          unreadable, task, pvPc, pvIdx, pvExc, summary>>

storeVars == <<collection, storesSince, maxBatch>>
apiVars   == <<call, ret>>
sumVars   == <<unreadable, task, pvPc, pvIdx, pvExc, summary>>

\* ------------------------------------------------------- python values
\* A numpy array: its rank and its (nested) data.
NdArray(ndim, data) == [ndim |-> ndim, data |-> data]

\* len(a)
NdLen(a) == Len(a.data)

\* a[i] with i counted from 0: one rank less.  Only defined when CanIndex.
CanIndex(a, i) == a.ndim >= 1 /\ i >= 0 /\ i < Len(a.data)
NdIndex(a, i) == NdArray(a.ndim - 1, a.data[i + 1])

\* a.tolist(): a rank-0 value becomes a python float, anything else a list.
PyFloat(x) == [py |-> "float", v |-> x]
PyList(xs) == [py |-> "list", v |-> xs]
PyNone     == [py |-> "None", v |-> <<>>]
Tolist(a)  == IF a.ndim = 0 THEN PyFloat(a.data) ELSE PyList(a.data)

\* truth value of `metadata` in `metadata[i] if metadata else {}`
Truthy(x) == x.py = "list" /\ Len(x.v) > 0

\* A payload dict is a set of <<key, value>> pairs.
EmptyDict == {}
TimestampDict(ts) == {<<"timestamp", ts>>}
Lookup(d, k) == (CHOOSE kv \in d : kv[1] = k)[2]

\* ------------------------------------------------------- vector arithmetic
RECURSIVE DotFrom(_, _, _)
DotFrom(a, b, i) == IF i > Len(a) THEN 0 ELSE a[i] * b[i] + DotFrom(a, b, i + 1)
Dot(a, b) == DotFrom(a, b, 1)
NormSq(a) == Dot(a, a)
SignedSq(d) == IF d >= 0 THEN d * d ELSE 0 - d * d

\* cosine(a, q) <= cosine(b, q), compared exactly on integer vectors
CosLeq(a, b, q) == SignedSq(Dot(a, q)) * NormSq(b) <= SignedSq(Dot(b, q)) * NormSq(a)

\* the score of a hit: the signed square of the cosine, as <<num, den>>
Score(a, q) == <<SignedSq(Dot(a, q)), NormSq(a) * NormSq(q)>>

\* ------------------------------------------------------- the Qdrant service
\* What the service accepts as a vector of the collection.
ValidVector(pv) == pv.py = "list" /\ Len(pv.v) = VectorSize

PointIds(coll) == {p.id : p \in coll}

\* upsert: every point of the request replaces the point of its id, whole.
\* (prior is bookkeeping: the point was stored before the latest construction.)
Upsert(coll, points) ==
    LET ids == {points[i].id : i \in 1..Len(points)}
        last(id) == CHOOSE i \in 1..Len(points) :
                       /\ points[i].id = id
                       /\ \A j \in 1..Len(points) : points[j].id = id => j <= i
    IN {p \in coll : p.id \notin ids}
         \cup {[id |-> id, vector |-> points[last(id)].vector.v,
                payload |-> points[last(id)].payload, prior |-> FALSE] : id \in ids}

\* search: the possible answers to a top-`limit` cosine search.  A query
\* vector that is not a list of vector_size numbers is rejected; ties between
\* equally similar points may come back in either order.
SearchAnswers(coll, query_vector, limit) ==
    IF ~ValidVector(query_vector)
    THEN {[status |-> "error", hits |-> <<>>]}
    ELSE LET q == query_vector.v
             m == IF Cardinality(coll) < limit THEN Cardinality(coll) ELSE limit
         IN { [status |-> "ok",
               hits |-> [i \in 1..m |-> [id |-> s[i].id, payload |-> s[i].payload,
                                         score |-> Score(s[i].vector, q)]]] :
              s \in { t \in [1..m -> coll] :
                        /\ \A i, j \in 1..m : i # j => t[i] # t[j]
                        /\ \A i, j \in 1..m : i < j => CosLeq(t[j].vector, t[i].vector, q)
                        /\ \A p \in coll : (\A i \in 1..m : t[i] # p)
                               => \A i \in 1..m : CosLeq(p.vector, t[i].vector, q) } }

\* ------------------------------------------------------- QdrantHandler
\* variant: create the collection only when it is missing, keeping its points
CreateIfMissing(coll) == coll

\* __init__: recreate_collection drops the named collection and creates it
\* again, empty.
RecreateCollection(coll) == {}

\* variant: ids counted from 1, range(1, len(embedding) + 1)
PointsOfFromOne(embedding, metadata) ==
    IF Truthy(metadata) /\ Len(metadata.v) < NdLen(embedding) + 1
    THEN [status |-> "IndexError", points |-> <<>>]
    ELSE [status |-> "ok",
          points |-> [k \in 1..NdLen(embedding) |->
                        [id |-> k,
                         vector |-> Tolist(NdIndex(embedding, k - 1)),
                         payload |-> IF Truthy(metadata) THEN metadata.v[k] ELSE EmptyDict]]]

\* variant: every point gets the payload metadata[0]
PointsOfFirstPayload(embedding, metadata) ==
    IF Truthy(metadata) /\ Len(metadata.v) < NdLen(embedding)
    THEN [status |-> "IndexError", points |-> <<>>]
    ELSE [status |-> "ok",
          points |-> [k \in 1..NdLen(embedding) |->
                        [id |-> k - 1,
                         vector |-> Tolist(NdIndex(embedding, k - 1)),
                         payload |-> IF Truthy(metadata) THEN metadata.v[1] ELSE EmptyDict]]]

\* the list comprehension of store_embedding: id i, vector embedding[i],
\* payload metadata[i] if metadata else {}
PointsOf(embedding, metadata) ==
    IF Truthy(metadata) /\ Len(metadata.v) < NdLen(embedding)
    THEN [status |-> "IndexError", points |-> <<>>]
    ELSE [status |-> "ok",
          points |-> [k \in 1..NdLen(embedding) |->
                        [id |-> k - 1,
                         vector |-> Tolist(NdIndex(embedding, k - 1)),
                         payload |-> IF Truthy(metadata) THEN metadata.v[k] ELSE EmptyDict]]]

\* the vector query_embedding hands to the search: embedding[0].tolist()
QueryVector(embedding) == Tolist(NdIndex(embedding, 0))

\* query_embedding: the possible returns.  An error of the search raises.
QueryEmbeddingReturns(coll, embedding, top_k) ==
    IF ~CanIndex(embedding, 0)
    THEN {[status |-> "IndexError", hits |-> <<>>]}
    ELSE SearchAnswers(coll, QueryVector(embedding), top_k)

Max(a, b) == IF a >= b THEN a ELSE b

\* store_embedding on the shared collection: build the points, upsert them.
\* An IndexError of the comprehension leaves the collection as it was.
StoreEffect(embedding, metadata) ==
    LET r == PointsOf(embedding, metadata)
    IN /\ collection' = IF r.status = "ok" THEN Upsert(collection, r.points) ELSE collection
       /\ maxBatch' = IF r.status = "ok" THEN Max(maxBatch, Len(r.points)) ELSE maxBatch
       /\ storesSince' = storesSince + 1

\* ------------------------------------------------------- direct callers
Call(op, embedding, metadata, top_k) ==
    [op |-> op, embedding |-> embedding, metadata |-> metadata, top_k |-> top_k]
Ret(status, hits, dropped) == [status |-> status, hits |-> hits, dropped |-> dropped]
NoArray == NdArray(0, 0)

\* the vectors and batches a direct caller stores and queries with
StoreVectors == {[k \in 1..VectorSize |-> IF k = j THEN 1 ELSE 0] : j \in 1..VectorSize}
Batches == {NdArray(2, rows) : rows \in UNION {[1..n -> StoreVectors] : n \in 0..MaxBatch}}
\* no metadata, metadata parallel to the batch, metadata one entry short
MetadataChoices(n) ==
    {PyNone, PyList([k \in 1..n |-> TimestampDict(10 * k)])}
      \cup (IF n >= 1 THEN {PyList([k \in 1..(n - 1) |-> TimestampDict(10 * k)])} ELSE {})
\* a query as one vector, or as a batch of one vector
Queries == {NdArray(1, v) : v \in StoreVectors} \cup {NdArray(2, <<v>>) : v \in StoreVectors}

\* QdrantHandler(config_path) against the same collection name, once more
QdrantHandlerInit ==
    /\ collection' = {[p EXCEPT !.prior = TRUE] : p \in RecreateCollection(collection)}
    /\ storesSince' = 0
    /\ maxBatch' = 0
    /\ call' = Call("__init__", NoArray, PyNone, 0)
    /\ ret' = Ret("ok", <<>>, Cardinality(collection))
    /\ UNCHANGED sumVars

store_embedding(embedding, metadata) ==
    /\ storesSince < MaxStores
    /\ StoreEffect(embedding, metadata)
    /\ call' = Call("store_embedding", embedding, metadata, 0)
    /\ ret' = Ret(PointsOf(embedding, metadata).status, <<>>, 0)
    /\ UNCHANGED sumVars

query_embedding(embedding, top_k) ==
    /\ \E r \in QueryEmbeddingReturns(collection, embedding, top_k) :
          ret' = Ret(r.status, r.hits, 0)
    /\ call' = Call("query_embedding", embedding, PyNone, top_k)
    /\ UNCHANGED <<storeVars, sumVars>>

\* ------------------------------------------------------- initial states
\* The state after QdrantHandler.__init__ (SpecStore) and after
\* MultiViewSummarizer.__init__ (Spec): the collection was just recreated.
InitStoreVars ==
    /\ collection = {}
    /\ storesSince = 0
    /\ maxBatch = 0
    /\ call = Call("__init__", NoArray, PyNone, 0)
    /\ ret = Ret("ok", <<>>, 0)

NoSummary == [status |-> "none"]

InitStore ==
    /\ InitStoreVars
    /\ unreadable = {}
    /\ task = <<>>
    /\ pvPc = "idle"
    /\ pvIdx = 0
    /\ pvExc = 0
    /\ summary = NoSummary

NextStore ==
    \/ QdrantHandlerInit
    \/ \E embedding \in Batches : \E metadata \in MetadataChoices(NdLen(embedding)) :
          store_embedding(embedding, metadata)
    \/ \E embedding \in Queries : \E top_k \in 1..MaxTopK :
          query_embedding(embedding, top_k)

SpecStore == InitStore /\ [][NextStore]_vars

\* ------------------------------------------------------- frame source
\* VideoDataLoader: the sampled frames of a video, each with its timestamp.
VideoPaths == 1..NumVideos
FrameCount(v) == IF v < 4 THEN 4 - v ELSE 1
FramePeriod(v) == 2 * v - 1
Timestamp(v, i) == (i - 1) * FramePeriod(v)
Frame(v, i) == [video |-> v, index |-> i]
TimestampsOf(v) == {Timestamp(v, i) : i \in 1..FrameCount(v)}

\* one step of iterating the loader from frame position pos: the next batch of
\* up to batch_size (frame, timestamp) pairs, in decode order
Min(a, b) == IF a <= b THEN a ELSE b
LoaderExhausted(v, pos) == pos >= FrameCount(v)
LoaderBatch(v, pos) ==
    LET n == Min(BatchSize, FrameCount(v) - pos)
    IN [frames |-> [k \in 1..n |-> Frame(v, pos + k)],
        timestamps |-> [k \in 1..n |-> Timestamp(v, pos + k)]]

\* get_frame_by_timestamp: the nearest frame, or no frame beyond the duration
get_frame_by_timestamp(v, ts) ==
    IF ts < 0 \/ ts > Timestamp(v, FrameCount(v))
    THEN [video |-> v, index |-> 0]
    ELSE Frame(v, CHOOSE i \in 1..FrameCount(v) :
                    \A j \in 1..FrameCount(v) :
                       LET di == IF Timestamp(v, i) >= ts THEN Timestamp(v, i) - ts
                                                          ELSE ts - Timestamp(v, i)
                           dj == IF Timestamp(v, j) >= ts THEN Timestamp(v, j) - ts
                                                          ELSE ts - Timestamp(v, j)
                       IN di <= dj)

\* ------------------------------------------------------- embedding retriever
\* CLIPEmbeddingRetriever: one fixed-dimension vector per image, in order.
ImageVector(frame) == [k \in 1..VectorSize |-> IF k = 1 THEN frame.video ELSE frame.index]
get_CLIP_vision_embedding(frames) ==
    NdArray(2, [k \in 1..Len(frames) |-> ImageVector(frames[k])])

\* one vector for a text; the array it comes in is either the vector itself
\* (rank 1) or a batch holding that one vector (rank 2)
TextQueries == {"a person playing guitar"}
TextVector(text) == [k \in 1..VectorSize |-> 1]
TextEmbeddingRanks == {1, 2}
get_CLIP_text_embedding(text, rank) ==
    IF rank = 1 THEN NdArray(1, TextVector(text)) ELSE NdArray(2, <<TextVector(text)>>)

\* ------------------------------------------------------- MultiViewSummarizer
NewTask == [st |-> "unsubmitted", runs |-> 0, pos |-> 0, frames |-> <<>>,
            timestamps |-> <<>>, image_embeddings |-> NoArray, metadata |-> PyNone,
            trace |-> <<>>]

Terminated(v) == task[v].st \in {"finished", "failed"}
Running(v) == task[v].st \in {"decode", "embed", "store"}
BatchNo(v) == Len(SelectSeq(task[v].trace, LAMBDA e : e[1] = "decode"))

\* process_videos, the comprehension: executor.submit, one task per path
process_videos_submit ==
    /\ pvPc = "submit"
    /\ task' = [task EXCEPT ![pvIdx].st = "pending"]
    /\ IF pvIdx = NumVideos
       THEN pvPc' = "collect" /\ pvIdx' = 1
       ELSE pvPc' = pvPc /\ pvIdx' = pvIdx + 1
    /\ UNCHANGED <<storeVars, apiVars, unreadable, pvExc, summary>>

\* a worker thread takes the oldest queued task and enters
\* process_single_video: VideoDataLoader(video_path, batch_size, interval)
worker_start(v) ==
    /\ task[v].st = "pending"
    /\ \A u \in VideoPaths : u < v => task[u].st # "pending"
    /\ Cardinality({u \in VideoPaths : Running(u)}) < MaxWorkers
    /\ task' = [task EXCEPT ![v].st = IF v \in unreadable THEN "failed" ELSE "decode",
                            ![v].runs = @ + 1]
    /\ UNCHANGED <<storeVars, apiVars, unreadable, pvPc, pvIdx, pvExc, summary>>

\* for frames, timestamps in video_loader: the next batch, or the end
decode_batch(v) ==
    /\ task[v].st = "decode"
    /\ IF LoaderExhausted(v, task[v].pos)
       THEN task' = [task EXCEPT ![v].st = "finished",
                                 ![v].trace = Append(@, <<"exhausted", BatchNo(v) + 1, <<>>>>)]
       ELSE LET b == LoaderBatch(v, task[v].pos)
            IN task' = [task EXCEPT ![v].st = "embed",
                                    ![v].pos = @ + Len(b.frames),
                                    ![v].frames = b.frames,
                                    ![v].timestamps = b.timestamps,
                                    ![v].trace = Append(@, <<"decode", BatchNo(v) + 1, b.timestamps>>)]
    /\ UNCHANGED <<storeVars, apiVars, unreadable, pvPc, pvIdx, pvExc, summary>>

\* variant: the store call left out of the loop body
embed_batch_skip_store(v) ==
    /\ task[v].st = "embed"
    /\ task' = [task EXCEPT ![v].st = "decode",
                            ![v].image_embeddings = get_CLIP_vision_embedding(task[v].frames),
                            ![v].metadata = PyList([k \in 1..Len(task[v].timestamps) |->
                                                      TimestampDict(task[v].timestamps[k])]),
                            ![v].trace = Append(@, <<"embed", BatchNo(v), task[v].timestamps>>)]
    /\ UNCHANGED <<storeVars, apiVars, unreadable, pvPc, pvIdx, pvExc, summary>>

\* image_embeddings = ...; metadata = [{"timestamp": ts} for ts in timestamps]
embed_batch(v) ==
    /\ task[v].st = "embed"
    /\ task' = [task EXCEPT ![v].st = "store",
                            ![v].image_embeddings = get_CLIP_vision_embedding(task[v].frames),
                            ![v].metadata = PyList([k \in 1..Len(task[v].timestamps) |->
                                                      TimestampDict(task[v].timestamps[k])]),
                            ![v].trace = Append(@, <<"embed", BatchNo(v), task[v].timestamps>>)]
    /\ UNCHANGED <<storeVars, apiVars, unreadable, pvPc, pvIdx, pvExc, summary>>

\* self.qdrant_handler.store_embedding(image_embeddings, metadata)
store_batch(v) ==
    /\ task[v].st = "store"
    /\ StoreEffect(task[v].image_embeddings, task[v].metadata)
    /\ task' = [task EXCEPT
                  ![v].st = IF PointsOf(task[v].image_embeddings, task[v].metadata).status = "ok"
                            THEN "decode" ELSE "failed",
                  ![v].trace = Append(@, <<"store", BatchNo(v),
                                           [k \in 1..Len(task[v].metadata.v) |->
                                              Lookup(task[v].metadata.v[k], "timestamp")]>>)]
    /\ UNCHANGED <<apiVars, unreadable, pvPc, pvIdx, pvExc, summary>>

\* variant: every result collected, the last failure kept
process_videos_collect_all ==
    /\ pvPc = "collect"
    /\ Terminated(pvIdx)
    /\ pvExc' = IF task[pvIdx].st = "failed" THEN pvIdx ELSE pvExc
    /\ IF pvIdx = NumVideos
       THEN pvPc' = "exit" /\ pvIdx' = pvIdx
       ELSE pvPc' = pvPc /\ pvIdx' = pvIdx + 1
    /\ UNCHANGED <<storeVars, apiVars, unreadable, task, summary>>

\* for future in futures: future.result()
process_videos_collect ==
    /\ pvPc = "collect"
    /\ Terminated(pvIdx)
    /\ IF task[pvIdx].st = "failed"
       THEN pvExc' = pvIdx /\ pvPc' = "exit" /\ pvIdx' = pvIdx
       ELSE /\ pvExc' = pvExc
            /\ IF pvIdx = NumVideos
               THEN pvPc' = "exit" /\ pvIdx' = pvIdx
               ELSE pvPc' = pvPc /\ pvIdx' = pvIdx + 1
    /\ UNCHANGED <<storeVars, apiVars, unreadable, task, summary>>

\* variant: shutdown(wait=False)
executor_exit_nowait ==
    /\ pvPc = "exit"
    /\ pvPc' = IF pvExc = 0 THEN "returned" ELSE "raised"
    /\ UNCHANGED <<storeVars, apiVars, unreadable, task, pvIdx, pvExc, summary>>

\* leaving `with ThreadPoolExecutor() as executor`: shutdown(wait=True)
executor_exit ==
    /\ pvPc = "exit"
    /\ \A v \in VideoPaths : task[v].st # "unsubmitted" => Terminated(v)
    /\ pvPc' = IF pvExc = 0 THEN "returned" ELSE "raised"
    /\ UNCHANGED <<storeVars, apiVars, unreadable, task, pvIdx, pvExc, summary>>

\* the images a caller queries with: the first frame of each video
QueryImages == {Frame(v, 1) : v \in VideoPaths}

\* generate_summary, lines 65-68: the query's embedding
QueryEmbedding(query, is_image, rank) ==
    IF is_image
    THEN NdIndex(get_CLIP_vision_embedding(<<query>>), 0)
    ELSE get_CLIP_text_embedding(query, rank)

\* the embedding vector of the query, whole
WholeQueryVector(query, is_image) ==
    IF is_image THEN ImageVector(query) ELSE TextVector(query)

\* generate_summary, lines 73-82: one summary item per result, its frame looked
\* up in a loader opened over video_path (the open fails for an unreadable one)
SummaryItems(hits, video_path) ==
    [k \in 1..Len(hits) |->
        [timestamp |-> Lookup(hits[k].payload, "timestamp"),
         frame |-> get_frame_by_timestamp(video_path, Lookup(hits[k].payload, "timestamp")),
         similarity |-> hits[k].score]]

generate_summary(query, video_path, top_k, is_image) ==
    /\ pvPc \in {"returned", "raised"}
    /\ \E rank \in TextEmbeddingRanks :
       \E r \in QueryEmbeddingReturns(collection, QueryEmbedding(query, is_image, rank), top_k) :
          summary' = [status |-> IF r.status = "ok" /\ video_path \notin unreadable
                                 THEN "ok" ELSE "raised",
                      query |-> query, is_image |-> is_image,
                      video_path |-> video_path, top_k |-> top_k,
                      query_vector |-> QueryVector(QueryEmbedding(query, is_image, rank)),
                      items |-> IF r.status = "ok" /\ video_path \notin unreadable
                                THEN SummaryItems(r.hits, video_path) ELSE <<>>]
    /\ UNCHANGED <<storeVars, apiVars, unreadable, task, pvPc, pvIdx, pvExc>>

Init ==
    /\ InitStoreVars
    /\ unreadable \in SUBSET VideoPaths
    /\ task = [v \in VideoPaths |-> NewTask]
    /\ pvPc = "submit"
    /\ pvIdx = 1
    /\ pvExc = 0
    /\ summary = NoSummary

Next ==
    \/ process_videos_submit
    \/ \E v \in VideoPaths : worker_start(v)
    \/ \E v \in VideoPaths : decode_batch(v)
    \/ \E v \in VideoPaths : embed_batch(v)
    \/ \E v \in VideoPaths : store_batch(v)
    \/ process_videos_collect
    \/ executor_exit
    \/ \E query \in QueryImages : \E video_path \in VideoPaths : \E top_k \in 1..MaxTopK :
          generate_summary(query, video_path, top_k, TRUE)
    \/ \E query \in TextQueries : \E video_path \in VideoPaths : \E top_k \in 1..MaxTopK :
          generate_summary(query, video_path, top_k, FALSE)

Spec == Init /\ [][Next]_vars

\* ------------------------------------------------------- claims, SpecStore

\* C2: constructing a handler against the collection name again drops the
\* collection: right after a construction the collection is empty, and at any
\* time it holds only points that were stored after the latest construction.
C2_DestructiveReset ==
    /\ call.op = "__init__" => collection = {}
    /\ \A p \in collection : ~p.prior

\* a later construction that found stored points and dropped them
C2_Witness == call.op = "__init__" /\ ret.dropped > 0 /\ collection = {}

\* C3: after one store_embedding of K known vectors into a freshly constructed
\* handler, query_embedding with one of those vectors and top_k = 1 returns
\* exactly one result, with the id and the metadata of a point holding that
\* vector.
C3_StoreQueryRoundTrip ==
    (/\ call.op = "query_embedding"
     /\ call.top_k = 1
     /\ storesSince = 1
     /\ call.embedding.ndim = 1
     /\ \E p \in collection : p.vector = call.embedding.data)
    => /\ ret.status = "ok"
       /\ Len(ret.hits) = 1
       /\ \E p \in collection : /\ p.vector = call.embedding.data
                                /\ p.id = ret.hits[1].id
                                /\ p.payload = ret.hits[1].payload

\* C4, the frame of one call: a store_embedding of n vectors that returns
\* writes the ids 0..n-1, the i-th with the i-th vector and the i-th metadata
\* entry (an empty payload without metadata), and keeps every point of id >= n.
C4_StoreStep ==
    (call'.op = "store_embedding" /\ ret'.status = "ok") =>
        LET e == call'.embedding
            md == call'.metadata
            n == NdLen(e)
        IN /\ PointIds(collection') = PointIds(collection) \cup 0..(n - 1)
           /\ Cardinality(collection') = Cardinality(PointIds(collection'))
           /\ \A i \in 0..(n - 1) : \E p \in collection' :
                 /\ p.id = i
                 /\ p.vector = e.data[i + 1]
                 /\ p.payload = IF md.py = "list" /\ md.v # <<>> THEN md.v[i + 1] ELSE {}
           /\ \A p \in collection : p.id >= n => p \in collection'

\* C4: ids are batch positions restarting at 0 on every call (C4_StoreStep), so
\* the collection always holds as many points as the longest batch stored
\* since the construction.
C4_IdsByBatchPosition ==
    /\ [](Cardinality(collection) = maxBatch)
    /\ [][C4_StoreStep]_vars

\* a second, shorter batch overwrote the low ids and left a higher one alone
C4_Witness ==
    /\ call.op = "store_embedding"
    /\ ret.status = "ok"
    /\ storesSince = 2
    /\ NdLen(call.embedding) >= 1
    /\ \E p \in collection : p.id >= NdLen(call.embedding)

\* ------------------------------------------------------- claims, Spec
RECURSIVE SumFrames(_)
SumFrames(n) == IF n = 0 THEN 0 ELSE FrameCount(n) + SumFrames(n - 1)

\* C1: when process_videos has returned without error, the collection holds
\* as many points as the loaders of all the videos yielded frames.
C1_AllFramesStored ==
    pvPc = "returned" => Cardinality(collection) = SumFrames(NumVideos)

\* C5: whenever process_videos has returned or raised, every task it
\* submitted has run to termination: finished or failed, none pending, none
\* still running.
C5_BlocksUntilAllDone ==
    pvPc \in {"returned", "raised"} =>
        \A v \in VideoPaths : task[v].st \in {"finished", "failed"}

\* process_videos raised the failure of a task, and a task submitted after it
\* still ran all its batches
C5_Witness ==
    /\ pvPc = "raised"
    /\ \E v \in VideoPaths : v > pvExc /\ task[v].st = "finished" /\ task[v].trace # <<>>

\* C6: process_videos returns normally only if no task failed; otherwise it
\* raises the error of the earliest-submitted failing task, and of that one
\* alone; an error shows only once collecting has reached it; no task is run
\* a second time.
C6_EarliestFailureSurfaces ==
    /\ pvPc = "returned" => \A v \in VideoPaths : task[v].st # "failed"
    /\ pvPc = "raised" =>
          /\ pvExc \in VideoPaths
          /\ task[pvExc].st = "failed"
          /\ \A v \in VideoPaths : v < pvExc => task[v].st = "finished"
    /\ pvExc # 0 => pvPc \in {"exit", "raised"} /\ pvIdx = pvExc
    /\ \A v \in VideoPaths : task[v].runs <= 1

\* two tasks failed and the earlier one's error is the one raised
C6_Witness ==
    /\ pvPc = "raised"
    /\ \E u, v \in VideoPaths :
          u < v /\ task[u].st = "failed" /\ task[v].st = "failed" /\ pvExc = u

\* C7: every result generate_summary(query, video_path) gets from the store
\* carries a timestamp that the frame source of video_path produced.
C7_TimestampsOfQueriedVideo ==
    summary.status = "ok" =>
        \A k \in 1..Len(summary.items) :
            summary.items[k].timestamp \in TimestampsOf(summary.video_path)

\* the steps of one video's loop, in the order the code takes them
RECURSIVE BatchSteps(_, _, _)
BatchSteps(v, pos, k) ==
    IF LoaderExhausted(v, pos)
    THEN << <<"exhausted", k, <<>>>> >>
    ELSE LET ts == LoaderBatch(v, pos).timestamps
         IN << <<"decode", k, ts>>, <<"embed", k, ts>>, <<"store", k, ts>> >>
              \o BatchSteps(v, pos + Len(ts), k + 1)

IsPrefix(s, t) == Len(s) <= Len(t) /\ \A i \in 1..Len(s) : s[i] = t[i]

\* C8: within one video the k-th batch the loader yields is embedded and then
\* stored, once, before the (k+1)-th is decoded, and the task finishes only
\* when the loader is exhausted.
C8_BatchesInDecodeOrder ==
    \A v \in VideoPaths :
        /\ IsPrefix(task[v].trace, BatchSteps(v, 0, 1))
        /\ task[v].st = "finished" => task[v].trace = BatchSteps(v, 0, 1)

\* a video of two batches is done while the other video is in mid-loop
C8_Witness ==
    \E u, v \in VideoPaths :
        /\ task[v].st = "finished"
        /\ Len(task[v].trace) >= 7
        /\ Running(u)

\* C9: the vector generate_summary has the store search with is the whole
\* embedding of the query, for a text query and for an image query.
C9_SearchesWholeEmbedding ==
    summary.status # "none" =>
        /\ summary.query_vector.py = "list"
        /\ summary.query_vector.v = WholeQueryVector(summary.query, summary.is_image)

\* C10: while the tasks store concurrently, every point of the collection
\* pairs the vector of a frame with the timestamp of that same frame.
C10_VectorMatchesTimestamp ==
    \A p \in collection :
        \E v \in VideoPaths : \E i \in 1..FrameCount(v) :
            /\ p.vector = ImageVector(Frame(v, i))
            /\ p.payload = TimestampDict(Timestamp(v, i))

\* the collection holds points of two videos while a task is still storing
C10_Witness ==
    /\ \E p, q \in collection : p.vector[1] # q.vector[1]
    /\ \E v \in VideoPaths : Running(v)

====
